---- MODULE Spec2Model ----
(***************************************************************************)
(* Model of src/app.py: one Streamlit session of the schedule planner.     *)
(* A session is a sequence of script runs.  Each run handles the OAuth     *)
(* callback first, then (when the "Process Schedule" button was pressed)   *)
(* extracts a schedule, connects to the Google services and commits the    *)
(* events and the tasks one by one, appending to the list `results`.       *)
(*                                                                         *)
(* Values received from outside (JSON fields) are records [k, t]:          *)
(*   k = "absent"  the key is not in the record (dict.get gives None)      *)
(*   k = "null"    JSON null                                               *)
(*   k = "empty"   the empty string                                        *)
(*   k = "junk"    a non-empty string that is no ISO-8601 timestamp        *)
(*   k = "iso"     an ISO-8601 timestamp string, t hours after an epoch    *)
(*   k = "text"    a non-empty free-text string                            *)
(*   k = "dt"      a Python datetime object (never received, only built)   *)
(*                                                                         *)
(* Library calls whose result the program text does not determine (HTTP    *)
(* requests, google-auth, the Calendar and Tasks services) are inputs of   *)
(* the actions.  st.stop() ends the run: Streamlit's StopException is a    *)
(* BaseException, so `except Exception` does not catch it.  The display    *)
(* calls st.success / st.error / st.warning themselves do not raise.       *)
(***************************************************************************)
EXTENDS Integers, Sequences, FiniteSets, TLC

VARIABLES
    pc,            \* position of the current script run
    trigger,       \* "none" | "noinput" | "input": how the button fired in this run
    schedule,      \* value returned by parse_input in this run
    services,      \* "unset" | "None" | "raised" | "handle": get_google_services in this run
    results,       \* the list `results` of the run
    idx,           \* 1-based position of the running for loop
    log,           \* network calls and user-visible messages of this run, in order
    google_creds,  \* 'google_creds' in st.session_state
    auth_flow,     \* 'auth_flow' in st.session_state
    queryCode,     \* 'code' in the query parameters of the page
    cloud          \* os.getenv('STREAMLIT_SERVER') is set

vars == <<pc, trigger, schedule, services, results, idx, log,
          google_creds, auth_flow, queryCode, cloud>>

\* Largest number of items (events plus tasks) in one extracted batch.
MaxItems == 3

\* timedelta(hours=1), in hours.
OneHour == 1

----------------------------------------------------------------------------
\* Values

V(k, t) == [k |-> k, t |-> t]
Absent == V("absent", 0)
Null   == V("null", 0)
Empty  == V("empty", 0)
Junk   == V("junk", 0)
Text   == V("text", 0)
Iso(t) == V("iso", t)

\* Python truthiness of a value obtained with dict.get.
Truthy(v) == v.k \notin {"absent", "null", "empty"}

\* datetime.fromisoformat: a datetime for an ISO string, ValueError for any
\* other string, TypeError for None or a datetime.
fromisoformat(v) ==
    IF v.k = "iso" THEN [ok |-> TRUE, val |-> V("dt", v.t)]
                   ELSE [ok |-> FALSE, val |-> v]

\* datetime.isoformat
isoformat(d) == Iso(d.t)

\* datetime + timedelta(hours=h)
plus_hours(d, h) == V("dt", d.t + h)

----------------------------------------------------------------------------
\* Records the extractor can return

\* One record per path through the event loop body: complete, end before
\* start, no end_time (None, like null and "", is falsy in `or`), and each
\* way a field can be unusable.
EventKinds ==
    { [summary |-> Text,   start_time |-> Iso(1), end_time |-> Iso(2)],
      [summary |-> Text,   start_time |-> Iso(1), end_time |-> Iso(0)],
      [summary |-> Text,   start_time |-> Iso(1), end_time |-> Absent],
      [summary |-> Text,   start_time |-> Iso(1), end_time |-> Junk],
      [summary |-> Text,   start_time |-> Junk,   end_time |-> Iso(2)],
      [summary |-> Text,   start_time |-> Absent, end_time |-> Iso(2)],
      [summary |-> Absent, start_time |-> Iso(1), end_time |-> Iso(2)] }

\* One record per path through the task loop body.
TaskKinds ==
    { [title |-> Text,   due |-> Absent],
      [title |-> Text,   due |-> Iso(1)],
      [title |-> Text,   due |-> Junk],
      [title |-> Absent, due |-> Iso(1)] }

Lists(S, n) == UNION { [1..m -> S] : m \in 0..n }

\* A key of the decoded JSON object: present or not, and its list.
Field(present, items) == [present |-> present, items |-> items]

Json(type, events, tasks) == [type |-> type, events |-> events, tasks |-> tasks]

\* The pairs of lists of at most MaxItems records in all.
Batches ==
    UNION { { <<es, ts>> : es \in [1..n -> EventKinds],
                           ts \in Lists(TaskKinds, MaxItems - n) } : n \in 0..MaxItems }

\* json.loads results that are JSON objects: both keys with their lists, or
\* an object without items that lacks one key or both.
Objects ==
    { Json("object", Field(TRUE, b[1]), Field(TRUE, b[2])) : b \in Batches }
    \cup { Json("object", Field(e, <<>>), Field(t, <<>>)) : e \in BOOLEAN, t \in BOOLEAN }

\* {"events": [], "tasks": []}
EmptyBatch == Json("object", Field(TRUE, <<>>), Field(TRUE, <<>>))

\* A JSON document that is no object (for instance a list).
NonObject == Json("list", Field(FALSE, <<>>), Field(FALSE, <<>>))

\* Text between the fences that json.loads rejects.
Malformed == Json("malformed", Field(FALSE, <<>>), Field(FALSE, <<>>))

\* No value yet (before parse_input has returned).
NoSchedule == Json("unset", Field(FALSE, <<>>), Field(FALSE, <<>>))

\* Outcome of the request to the extraction service: the request raises
\* ("transport"), raise_for_status raises ("status"), the body is no JSON or
\* lacks candidates[0].content.parts[0].text ("envelope"), or the model's
\* text arrives, with or without a ```json fence around `content`.
Resp(kind, fence, content) == [kind |-> kind, fence |-> fence, content |-> content]

Responses ==
    { Resp("transport", FALSE, Malformed), Resp("status", FALSE, Malformed),
      Resp("envelope", FALSE, Malformed), Resp("text", FALSE, Malformed) }
    \cup { Resp("text", TRUE, c) : c \in {Malformed, NonObject} \cup Objects }

\* What became of the request, for the log.
Outcome(resp) ==
    IF resp.kind # "text" THEN resp.kind
    ELSE IF ~resp.fence THEN "nofence"
    ELSE IF resp.content.type = "malformed" THEN "badjson"
    ELSE IF resp.content.type = "list" THEN "nonobject"
    ELSE "object"

----------------------------------------------------------------------------
\* Log entries and result entries

E(op, i, s, e, res) == [op |-> op, i |-> i, s |-> s, e |-> e, res |-> res]
Msg(op)       == E(op, 0, 0, 0, "")
ItemMsg(op, i) == E(op, i, 0, 0, "")
Net(op, res)  == E(op, 0, 0, 0, res)

R(tag, kind, i) == [tag |-> tag, kind |-> kind, i |-> i]

NetOps     == {"oauth_token", "extract", "refresh", "fetch_token",
               "create_event", "create_task"}
CredOps    == {"oauth_token", "refresh", "fetch_token"}
CreateOps  == {"create_event", "create_task"}

\* Answers of the Calendar / Tasks service to an insert: the created object
\* with its summary/title, a created object without that key, or an error.
Backend == {"ok", "noecho", "error"}

\* The answers an iteration can meet: none is read when the body raised
\* before the insert.
Answers(raised) == IF raised THEN {"none"} ELSE Backend

----------------------------------------------------------------------------
\* parse_input: the value returned and whether st.error was called.

parse_input(resp) ==
    IF resp.kind # "text" THEN [value |-> EmptyBatch, error |-> TRUE]
    ELSE IF ~resp.fence THEN [value |-> EmptyBatch, error |-> FALSE]
    ELSE IF resp.content.type = "malformed" THEN [value |-> EmptyBatch, error |-> TRUE]
    ELSE [value |-> resp.content, error |-> FALSE]

\* Faulty variant of NoInput, `not input_text and uploaded_file`: C8's
\* formula must tell it from the code.
NoInputMissingNot(text, file) == ~text /\ file

\* `not input_text and not uploaded_file`
NoInput(text, file) == ~text /\ ~file

\* schedule.get(key) is truthy
Has(field) == field.present /\ field.items # <<>>

\* Faulty variant of IsEmptyBatch, a test for missing keys only
\* (`schedule.get(...) is None`): C3's formula must tell it from the code.
IsEmptyBatchMissingOnly(s) == ~s.events.present /\ ~s.tasks.present

\* `not schedule.get("events") and not schedule.get("tasks")`
IsEmptyBatch(s) == ~Has(s.events) /\ ~Has(s.tasks)

\* Where the run goes once it is connected / once the event loop is over.
AfterEvents(s) == IF Has(s.tasks) THEN "tasks" ELSE "complete"
AfterConnect(s) == IF Has(s.events) THEN "events" ELSE AfterEvents(s)

----------------------------------------------------------------------------
\* get_google_services.  `load` is what Credentials.from_authorized_user_info
\* makes of the stored dictionary: it raises, or gives credentials that are
\* valid, expired with a refresh token ("expired_rt"), or neither
\* ("invalid").  refreshOk, fetchOk, buildOk: creds.refresh, the console
\* flow (input and flow.fetch_token) and build(...) return rather than raise.
\* Gives the returned value (ret), the session state left behind and the
\* network calls and messages made, in order.

GGS(ret, creds, flow, l) == [ret |-> ret, creds |-> creds, flow |-> flow, log |-> l]

Build(buildOk) == IF buildOk THEN "handle" ELSE "raised"

get_google_services(load, refreshOk, fetchOk, buildOk) ==
    LET creds == IF google_creds = "stored" THEN load ELSE "none" IN
    IF creds = "raises" THEN GGS("raised", google_creds, auth_flow, <<>>)
    ELSE IF creds = "valid" THEN GGS(Build(buildOk), google_creds, auth_flow, <<>>)
    ELSE IF creds = "expired_rt" THEN
        IF refreshOk
        THEN GGS(Build(buildOk), "stored", auth_flow, <<Net("refresh", "ok")>>)
        ELSE GGS("raised", google_creds, auth_flow, <<Net("refresh", "error")>>)
    ELSE IF cloud THEN GGS("None", google_creds, TRUE, <<Msg("auth_link")>>)
    ELSE IF fetchOk
        THEN GGS(Build(buildOk), "stored", auth_flow, <<Net("fetch_token", "ok")>>)
        ELSE GGS("raised", google_creds, auth_flow, <<Net("fetch_token", "error")>>)

\* Faulty variant of ConnectNext, the handler without its st.stop() calls:
\* C4's formula must tell it from the code.
ConnectNextNoStop(ret, s) == AfterConnect(s)

\* The handler after get_google_services: st.stop() unless a handle came back.
ConnectNext(ret, s) == IF ret = "handle" THEN AfterConnect(s) ELSE "stopped"

\* The message the handler shows for each return of get_google_services.
ConnectMsg(ret) ==
    IF ret = "handle" THEN Msg("ok_connected")
    ELSE IF ret = "None" THEN Msg("warn_auth")
    ELSE Msg("err_connect")

----------------------------------------------------------------------------
\* The body of the event loop up to the insert: raised, or the start and end
\* sent to the Calendar service.

Raised == [raised |-> TRUE, s |-> 0, e |-> 0]

EventAttempt(event, svc) ==
    IF event.start_time.k = "absent" THEN Raised
    ELSE LET start == fromisoformat(event.start_time) IN
         IF ~start.ok THEN Raised
         ELSE LET arg == IF Truthy(event.end_time)
                         THEN event.end_time
                         ELSE plus_hours(start.val, OneHour)
                  end == fromisoformat(arg)
              IN  IF ~end.ok THEN Raised
                  ELSE IF svc # "handle" THEN Raised
                  ELSE IF event.summary.k = "absent" THEN Raised
                  ELSE [raised |-> FALSE, s |-> isoformat(start.val).t,
                                          e |-> isoformat(end.val).t]

\* The body of the task loop up to the insert: raised or not.
TaskAttempt(task, svc) == svc # "handle" \/ task.title.k = "absent"

\* The f-string of st.success for a created task raises.
TaskRenderRaises(task) == Truthy(task.due) /\ ~fromisoformat(task.due).ok

\* Faulty variant of ContinueAfter, the try/except around the whole loop:
\* C1's formula must tell it from the code.
ContinueAfterBreak(i, n, failed) == IF failed THEN n + 1 ELSE i + 1

\* The try/except is inside the for loop: whether or not the item failed,
\* the loop goes on with the next item (n is the length of the list).
ContinueAfter(i, n, failed) == i + 1

----------------------------------------------------------------------------
RunEnded == {"idle", "done", "stopped", "crashed"}

Init ==
    /\ pc = "start"
    /\ trigger = "none"
    /\ schedule = NoSchedule
    /\ services = "unset"
    /\ results = <<>>
    /\ idx = 0
    /\ log = <<>>
    /\ google_creds = "none"
    /\ auth_flow = FALSE
    /\ cloud \in BOOLEAN
    \* The page may have been opened with ?code=...; without STREAMLIT_SERVER
    \* no flow is ever saved, so the code is never read and is left out.
    /\ queryCode \in (IF cloud THEN BOOLEAN ELSE {FALSE})

\* A script run starts: handle_oauth_callback().  fetchOk: flow.fetch_token
\* returns rather than raises.
HandleOAuthCallback ==
    /\ pc \in RunEnded \cup {"start"}
    /\ trigger' = "none"
    /\ schedule' = NoSchedule
    /\ services' = "unset"
    /\ results' = <<>>
    /\ idx' = 0
    /\ \E fetchOk \in (IF queryCode /\ auth_flow THEN BOOLEAN ELSE {TRUE}) :
        IF queryCode /\ auth_flow
        THEN IF fetchOk
             THEN /\ log' = <<Net("oauth_token", "ok")>>
                  /\ google_creds' = "stored"
                  /\ queryCode' = FALSE
                  /\ pc' = "ui"
             ELSE /\ log' = <<Net("oauth_token", "error")>>
                  /\ pc' = "crashed"
                  /\ UNCHANGED <<google_creds, queryCode>>
        ELSE /\ log' = <<>>
             /\ pc' = "ui"
             /\ UNCHANGED <<google_creds, queryCode>>
    /\ UNCHANGED <<auth_flow, cloud>>

\* The button was not pressed in this run: the script only draws the page.
NoTrigger ==
    /\ pc = "ui"
    /\ pc' = "idle"
    /\ UNCHANGED <<trigger, schedule, services, results, idx, log,
                   google_creds, auth_flow, queryCode, cloud>>

\* "Process Schedule" pressed: the input check, parse_input and the check
\* of its result.
ProcessSchedule ==
    /\ pc = "ui"
    /\ \E text \in BOOLEAN, file \in BOOLEAN, resp \in Responses :
        /\ trigger' = IF ~text /\ ~file THEN "noinput" ELSE "input"
        /\ IF NoInput(text, file)
           THEN /\ log' = Append(log, Msg("warn_noinput"))
                /\ pc' = "stopped"
                /\ UNCHANGED schedule
           ELSE LET r == parse_input(resp)
                    l == log \o <<Net("extract", Outcome(resp))>>
                             \o (IF r.error THEN <<Msg("err_gemini")>> ELSE <<>>)
                IN  /\ schedule' = r.value
                    /\ IF r.value.type # "object"
                       THEN /\ log' = l
                            /\ pc' = "crashed"
                       ELSE IF IsEmptyBatch(r.value)
                       THEN /\ log' = Append(l, Msg("err_parse"))
                            /\ pc' = "stopped"
                       ELSE /\ log' = l
                            /\ pc' = "connect"
    /\ UNCHANGED <<services, results, idx, google_creds, auth_flow, queryCode, cloud>>

\* try: services = get_google_services() ... except, then results = [].
Connect ==
    /\ pc = "connect"
    /\ \E load \in {"raises", "valid", "expired_rt", "invalid"},
          refreshOk \in BOOLEAN, fetchOk \in BOOLEAN, buildOk \in BOOLEAN :
        LET g == get_google_services(load, refreshOk, fetchOk, buildOk) IN
        /\ services' = g.ret
        /\ google_creds' = g.creds
        /\ auth_flow' = g.flow
        /\ log' = (log \o g.log) \o <<ConnectMsg(g.ret)>>
        /\ pc' = ConnectNext(g.ret, schedule)
    /\ results' = <<>>
    /\ idx' = 1
    /\ UNCHANGED <<trigger, schedule, queryCode, cloud>>

\* One iteration of `for event in schedule["events"]`.
CommitEvent ==
    /\ pc = "events"
    /\ \E b \in Answers(EventAttempt(schedule.events.items[idx], services).raised) :
        LET n == Len(schedule.events.items)
            a == EventAttempt(schedule.events.items[idx], services)
            ok == ~a.raised /\ b = "ok"
            next == ContinueAfter(idx, n, ~ok)
        IN  /\ results' = Append(results, R(IF ok THEN "ok" ELSE "fail", "event", idx))
            /\ log' = log
                      \o (IF a.raised THEN <<>>
                          ELSE <<E("create_event", idx, a.s, a.e, b)>>)
                      \o <<ItemMsg(IF ok THEN "ok_event" ELSE "err_event", idx)>>
            /\ IF next <= n
               THEN pc' = "events" /\ idx' = next
               ELSE pc' = AfterEvents(schedule) /\ idx' = 1
    /\ UNCHANGED <<trigger, schedule, services, google_creds, auth_flow, queryCode, cloud>>

\* One iteration of `for task in schedule["tasks"]`.
CommitTask ==
    /\ pc = "tasks"
    /\ \E b \in Answers(TaskAttempt(schedule.tasks.items[idx], services)) :
        LET n == Len(schedule.tasks.items)
            task == schedule.tasks.items[idx]
            raised == TaskAttempt(task, services)
            created == ~raised /\ b = "ok"
            render == created /\ TaskRenderRaises(task)
            failed == ~created \/ render
            next == ContinueAfter(idx, n, failed)
        IN  /\ results' = results
                      \o (IF created THEN <<R("ok", "task", idx)>> ELSE <<>>)
                      \o (IF failed THEN <<R("fail", "task", idx)>> ELSE <<>>)
            /\ log' = log
                      \o (IF raised THEN <<>>
                          ELSE <<E("create_task", idx, 0, 0, b)>>)
                      \o <<ItemMsg(IF failed THEN "err_task" ELSE "ok_task", idx)>>
            /\ IF next <= n
               THEN pc' = "tasks" /\ idx' = next
               ELSE pc' = "complete" /\ idx' = 1
    /\ UNCHANGED <<trigger, schedule, services, google_creds, auth_flow, queryCode, cloud>>

\* st.balloons(); st.success("Processing complete!")
Complete ==
    /\ pc = "complete"
    /\ log' = Append(log, Msg("complete"))
    /\ pc' = "done"
    /\ UNCHANGED <<trigger, schedule, services, results, idx,
                   google_creds, auth_flow, queryCode, cloud>>

Next ==
    \/ HandleOAuthCallback
    \/ NoTrigger
    \/ ProcessSchedule
    \/ Connect
    \/ CommitEvent
    \/ CommitTask
    \/ Complete

Spec == Init /\ [][Next]_vars

----------------------------------------------------------------------------
\* Vocabulary of the properties

Pos == 1..Len(log)
HasOp(op) == \E k \in Pos : log[k].op = op
Count(ops) == Cardinality({ k \in Pos : log[k].op \in ops })

Events == schedule.events.items
Tasks  == schedule.tasks.items

CreateOp(kind) == IF kind = "event" THEN "create_event" ELSE "create_task"

\* A create call was sent for item i of the events / tasks.
Issued(kind, i) == \E k \in Pos : log[k].op = CreateOp(kind) /\ log[k].i = i

\* The backend answered the create call for the item with `res`.
Answered(kind, i, res) ==
    \E k \in Pos : log[k].op = CreateOp(kind) /\ log[k].i = i /\ log[k].res \in res

\* The backend created the object: with or without the echoed name.
Created(kind, i) == Answered(kind, i, {"ok", "noecho"})

\* The loop has appended something for the item.
Reported(kind, i) == \E k \in 1..Len(results) : results[k].kind = kind /\ results[k].i = i
ReportedAs(kind, i, tag) ==
    \E k \in 1..Len(results) :
        results[k].kind = kind /\ results[k].i = i /\ results[k].tag = tag

IsEventEntry(r) == r.kind = "event"

Tags == [k \in 1..Len(results) |-> results[k].tag]

\* The extractor's result is a batch without events and tasks.
NoItems == schedule.type = "object" /\ Events = <<>> /\ Tasks = <<>>

\* The record lacks a required field or carries an unparseable timestamp.
Unparseable(v) == Truthy(v) /\ v.k # "iso"
InvalidEvent(ev) ==
    \/ ev.start_time.k # "iso"
    \/ ev.summary.k = "absent"
    \/ Unparseable(ev.end_time)
InvalidTask(task) == task.title.k = "absent" \/ Unparseable(task.due)

----------------------------------------------------------------------------
\* C1: a failing create call never stops the commit loops.  When the run is
\* done every event and every task of the batch has been reported, every
\* record the loop body accepts has had its create call sent whatever
\* happened to the other items, a run that stopped or crashed has sent no
\* create call, and a batch of three events whose first and third create
\* calls succeed and whose second fails has the event entries (ok, fail, ok).
C1_Isolation ==
    /\ pc = "done" =>
        /\ \A i \in 1..Len(Events) :
            /\ Reported("event", i)
            /\ ~EventAttempt(Events[i], "handle").raised => Issued("event", i)
        /\ \A i \in 1..Len(Tasks) :
            /\ Reported("task", i)
            /\ ~TaskAttempt(Tasks[i], "handle") => Issued("task", i)
        /\ ( /\ Len(Events) = 3
             /\ Answered("event", 1, {"ok"})
             /\ Answered("event", 2, {"error"})
             /\ Answered("event", 3, {"ok"}) )
           => SelectSeq(results, IsEventEntry)
                = <<R("ok", "event", 1), R("fail", "event", 2), R("ok", "event", 3)>>
    /\ pc \in {"stopped", "crashed"} => Count(CreateOps) = 0 /\ results = <<>>
    /\ pc = "events" => \A i \in 1..(idx - 1) : Reported("event", i)
    /\ pc = "tasks" => \A i \in 1..(idx - 1) : Reported("task", i)

\* C1: three events, the second create call failed, the run is done.
C1_Witness ==
    /\ pc = "done"
    /\ Len(Events) = 3
    /\ Tasks = <<>>
    /\ Answered("event", 2, {"error"})
    /\ Tags = <<"ok", "fail", "ok">>

\* C2 as stated: every reported event with a parseable start_time and no
\* end_time has had a create call sent that ends one hour after its start,
\* and is reported as succeeded when the backend accepted the call.
C2_DefaultDuration ==
    \A i \in 1..Len(Events) :
        ( /\ Reported("event", i)
          /\ Events[i].start_time.k = "iso"
          /\ Events[i].summary.k = "text"
          /\ ~Truthy(Events[i].end_time) )
        => /\ \E k \in Pos : /\ log[k].op = "create_event"
                             /\ log[k].i = i
                             /\ log[k].s = Events[i].start_time.t
                             /\ log[k].e = Events[i].start_time.t + OneHour
           /\ Answered("event", i, {"ok"}) => ReportedAs("event", i, "ok")

\* C3 as stated: when the extractor's result has no events and no tasks the
\* run reports the parse failure and stops, and the run has made no
\* credential acquisition or refresh and no create call.
C3_Original ==
    (trigger = "input" /\ NoItems) =>
        /\ pc = "stopped"
        /\ log[Len(log)] = Msg("err_parse")
        /\ Count(CredOps) = 0
        /\ Count(CreateOps) = 0

\* C3 amended: when the extractor's result has no events and no tasks the
\* run reports the parse failure and stops; get_google_services is not
\* called (no refresh, no new flow) and no create call is made.  The only
\* credential acquisition the run can hold is the token exchange of
\* handle_oauth_callback, made before the extraction request.
C3_EmptyBatchStops ==
    (trigger = "input" /\ NoItems) =>
        /\ pc = "stopped"
        /\ log[Len(log)] = Msg("err_parse")
        /\ services = "unset"
        /\ Count({"refresh", "fetch_token"}) = 0
        /\ Count(CreateOps) = 0
        /\ \A k \in Pos : log[k].op = "oauth_token" =>
                            \E j \in Pos : j > k /\ log[j].op = "extract"

\* C3: the degraded empty batch after an extraction error, reported.
C3_Witness ==
    /\ trigger = "input"
    /\ schedule = EmptyBatch
    /\ pc = "stopped"
    /\ HasOp("err_gemini")
    /\ HasOp("err_parse")

\* C4: when get_google_services gives no handle (None, or it raises) the
\* run stops with exactly one authentication outcome shown, as the last
\* thing it does, and no create call; and a create call is only ever made
\* after the handle was obtained.
C4_MissingCredentialAborts ==
    /\ services \in {"None", "raised"} =>
        /\ pc = "stopped"
        /\ Count(CreateOps) = 0
        /\ results = <<>>
        /\ Count({"warn_auth", "err_connect"}) = 1
        /\ log[Len(log)].op = (IF services = "None" THEN "warn_auth" ELSE "err_connect")
        /\ ~HasOp("ok_connected")
    /\ \A k \in Pos : log[k].op \in CreateOps =>
        /\ services = "handle"
        /\ \E j \in Pos : j < k /\ log[j].op = "ok_connected"

\* C4: the refresh of the stored credential raised and the run stopped.
C4_Witness ==
    /\ services = "raised"
    /\ pc = "stopped"
    /\ HasOp("refresh")
    /\ Has(schedule.events)

\* C5 as stated: after the commit stage the results hold one entry per
\* item, the events first in their order and then the tasks in theirs.
C5_ResultShape ==
    pc = "done" =>
        /\ Len(results) = Len(Events) + Len(Tasks)
        /\ \A k \in 1..Len(results) :
            /\ results[k].tag \in {"ok", "fail"}
            /\ IF k <= Len(Events)
               THEN results[k].kind = "event" /\ results[k].i = k
               ELSE results[k].kind = "task" /\ results[k].i = k - Len(Events)

\* C6 as stated: whatever the extraction request yields other than a
\* well-formed events/tasks object, parse_input returns the empty batch
\* {events: [], tasks: []} and the run does not end in an unhandled fault.
C6_FailsClosed ==
    \A k \in Pos :
        (log[k].op = "extract" /\ log[k].res # "object")
        => schedule = EmptyBatch /\ pc # "crashed"

\* C7 as stated: an event or task with a missing required field or an
\* unparseable timestamp has no create call sent for it and is reported as
\* failed once the loop has passed it.
C7_InvalidNeverSent ==
    /\ \A i \in 1..Len(Events) :
        InvalidEvent(Events[i]) =>
            /\ ~Issued("event", i)
            /\ Reported("event", i) => ReportedAs("event", i, "fail")
    /\ \A i \in 1..Len(Tasks) :
        InvalidTask(Tasks[i]) =>
            /\ ~Issued("task", i)
            /\ Reported("task", i) => ReportedAs("task", i, "fail")

\* C8 as stated: when the trigger fires without text and without image the
\* user is warned and the run stops, and the run has made no network call.
C8_Original ==
    trigger = "noinput" =>
        /\ pc = "stopped"
        /\ log[Len(log)] = Msg("warn_noinput")
        /\ Count(NetOps) = 0

\* C8 amended: when the trigger fires without text and without image the
\* user is warned and the run stops: no extraction request is made,
\* get_google_services is not called and no create call is made.  The only
\* network call the run can hold is the token exchange of
\* handle_oauth_callback, made before the trigger is looked at.
C8_NoInputHalts ==
    trigger = "noinput" =>
        /\ pc = "stopped"
        /\ log[Len(log)] = Msg("warn_noinput")
        /\ Count(NetOps \ {"oauth_token"}) = 0
        /\ services = "unset"
        /\ schedule = NoSchedule
        /\ results = <<>>

\* C8: a run that exchanged the authorization code and then met the
\* trigger without input.
C8_Witness ==
    /\ trigger = "noinput"
    /\ pc = "stopped"
    /\ HasOp("oauth_token")
    /\ HasOp("warn_noinput")

\* C9 as stated: every create-event call carries an end that is not before
\* its start.
C9_EndNotBeforeStart ==
    \A k \in Pos : log[k].op = "create_event" => log[k].e >= log[k].s

\* C10 as stated: an item is reported as failed only if its create call was
\* not sent or did not create the object, and as succeeded only if it did.
C10_ReportMatchesBackend ==
    \A k \in 1..Len(results) :
        /\ results[k].tag = "fail" => ~Created(results[k].kind, results[k].i)
        /\ results[k].tag = "ok" => Created(results[k].kind, results[k].i)

====
